---- MODULE Spec2Model ----
(***************************************************************************)
(* A model of extract_frames.py: the command-line pipeline main(), the     *)
(* face-region tracker of face_pass(), the continuous flow pass and the    *)
(* output sampler of save_to_disk().                                       *)
(***************************************************************************)
EXTENDS Integers, Sequences, FiniteSets

SetMin(S) == CHOOSE x \in S : \A y \in S : x <= y

SetMax(S) == CHOOSE x \in S : \A y \in S : x >= y

(***************************************************************************)
(* Natural numbers of any size, as sequences of limbs (least significant   *)
(* first, no leading zero limb; zero is the empty sequence).  They carry   *)
(* the 53-bit mantissas of the doubles save_to_disk computes with.         *)
(***************************************************************************)
LimbBits == 12

RECURSIVE Pow2(_)
Pow2(k) == IF k = 0 THEN 1 ELSE 2 * Pow2(k - 1)

LimbBase == Pow2(LimbBits)

RECURSIVE NatBitLen(_)
NatBitLen(n) == IF n = 0 THEN 0 ELSE 1 + NatBitLen(n \div 2)

RECURSIVE BigNorm(_)
BigNorm(a) ==
    IF a = <<>> THEN <<>>
    ELSE IF a[Len(a)] = 0 THEN BigNorm(SubSeq(a, 1, Len(a) - 1))
    ELSE a

RECURSIVE BigOfNat(_)
BigOfNat(n) ==
    IF n = 0 THEN <<>> ELSE <<n % LimbBase>> \o BigOfNat(n \div LimbBase)

RECURSIVE BigToNat(_)
BigToNat(a) ==
    IF a = <<>> THEN 0 ELSE a[1] + LimbBase * BigToNat(Tail(a))

BigBitLen(a) ==
    IF a = <<>> THEN 0 ELSE LimbBits * (Len(a) - 1) + NatBitLen(a[Len(a)])

\* a * k + c, for small k >= 1 and c
RECURSIVE BigMulAdd(_, _, _)
BigMulAdd(a, k, c) ==
    IF a = <<>> THEN BigOfNat(c)
    ELSE LET v == a[1] * k + c
         IN  IF v < LimbBase THEN <<v>> \o BigMulAdd(Tail(a), k, 0)
             ELSE <<v % LimbBase>> \o BigMulAdd(Tail(a), k, v \div LimbBase)

BigGE(a, b) ==
    IF Len(a) # Len(b) THEN Len(a) > Len(b)
    ELSE LET d == {i \in 1..Len(a) : a[i] # b[i]}
         IN  d = {} \/ a[SetMax(d)] > b[SetMax(d)]

\* a - b - br, for a >= b + br; the limbs only, not normalised
RECURSIVE BigSubLimbs(_, _, _)
BigSubLimbs(a, b, br) ==
    IF a = <<>> THEN <<>>
    ELSE LET v == a[1] - (IF b = <<>> THEN 0 ELSE b[1]) - br
         IN  IF v < 0
             THEN <<v + LimbBase>>
                      \o BigSubLimbs(Tail(a), IF b = <<>> THEN <<>> ELSE Tail(b), 1)
             ELSE <<v>>
                      \o BigSubLimbs(Tail(a), IF b = <<>> THEN <<>> ELSE Tail(b), 0)

BigSub(a, b) == BigNorm(BigSubLimbs(a, b, 0))

\* <<a \div k, a % k>> for a small k >= 1; the quotient not normalised
RECURSIVE BigDivSmallLimbs(_, _)
BigDivSmallLimbs(a, k) ==
    IF a = <<>> THEN <<<<>>, 0>>
    ELSE LET hi == BigDivSmallLimbs(Tail(a), k)
             v  == hi[2] * LimbBase + a[1]
         IN  <<<<v \div k>> \o hi[1], v % k>>

BigDivSmall(a, k) ==
    LET qr == BigDivSmallLimbs(a, k) IN <<BigNorm(qr[1]), qr[2]>>

Limb(a, i) == IF 1 <= i /\ i <= Len(a) THEN a[i] ELSE 0

\* the largest digit d < LimbBase with d * D <= R, for R < D * LimbBase:
\* the quotient of the leading limbs of R and D brackets it.  (The leading
\* limb of D, a mantissa, is small enough for the three limbs of R to fit
\* an integer.)
BigDigit(R, D) ==
    LET L  == Len(D)
        D2 == Limb(D, L) * LimbBase + Limb(D, L - 1)
        R3 == (Limb(R, L + 1) * LimbBase + Limb(R, L)) * LimbBase + Limb(R, L - 1)
        lo == R3 \div (D2 + 1)
        hi == IF (R3 + 1) \div D2 < LimbBase THEN (R3 + 1) \div D2 ELSE LimbBase - 1
    IN  SetMax({d \in lo..hi : d = 0 \/ BigGE(R, BigMulAdd(D, d, 0))})

\* <<A \div D, A % D>> by long division, one limb of A at a time; the
\* quotient not normalised
RECURSIVE BigDivModLimbs(_, _)
BigDivModLimbs(A, D) ==
    IF Len(A) < Len(D) THEN <<<<>>, A>>
    ELSE LET hi == BigDivModLimbs(Tail(A), D)
         IN  IF hi[2] = <<>> /\ A[1] = 0 THEN <<<<0>> \o hi[1], <<>>>>
             ELSE LET R  == <<A[1]>> \o hi[2]
                      dg == BigDigit(R, D)
                  IN  IF dg = 0 THEN <<<<0>> \o hi[1], R>>
                      ELSE <<<<dg>> \o hi[1], BigSub(R, BigMulAdd(D, dg, 0))>>

BigDivMod(A, D) ==
    LET qr == BigDivModLimbs(A, D) IN <<BigNorm(qr[1]), qr[2]>>

\* a * 2^s, for a > 0
BigShl(a, s) ==
    [i \in 1..(s \div LimbBits) |-> 0] \o BigMulAdd(a, Pow2(s % LimbBits), 0)

\* <<a \div 2^s, whether a bit of a was shifted out>>
BigShr(a, s) ==
    LET w    == IF s \div LimbBits < Len(a) THEN s \div LimbBits ELSE Len(a)
        qr   == BigDivSmall(SubSeq(a, w + 1, Len(a)), Pow2(s % LimbBits))
        lost == qr[2] # 0 \/ \E i \in 1..w : a[i] # 0
    IN  IF s \div LimbBits >= Len(a) THEN <<<<>>, a # <<>>>> ELSE <<qr[1], lost>>

BigOdd(a) == a # <<>> /\ a[1] % 2 = 1

(***************************************************************************)
(* IEEE-754 binary64 arithmetic.  A positive double is [m |-> M, e |-> k], *)
(* worth M * 2^k, with 2^(MantBits-1) <= M < 2^MantBits.  Every operation  *)
(* rounds to nearest, ties to even.                                        *)
(***************************************************************************)
MantBits == 53

FloatZero == [m |-> <<>>, e |-> 0]

\* the double nearest to Q * 2^e (plus a nonzero fraction below Q's last
\* bit when sticky), for Q of MantBits or more bits
FloatRound(Q, sticky, e) ==
    LET d    == BigBitLen(Q) - MantBits
        sh   == BigShr(Q, d - 1)
        q    == BigDivSmall(sh[1], 2)[1]
        up   == BigOdd(sh[1]) /\ (sh[2] \/ sticky \/ BigOdd(q))
        m    == IF up THEN BigMulAdd(q, 1, 1) ELSE q
    IN  IF d = 0 THEN [m |-> Q, e |-> e]
        ELSE IF BigBitLen(m) > MantBits
        THEN [m |-> BigDivSmall(m, 2)[1], e |-> e + d + 1]
        ELSE [m |-> m, e |-> e + d]

\* float(n) of an integer 0 <= n < 2^MantBits
FloatOfInt(n) ==
    IF n = 0 THEN FloatZero
    ELSE [m |-> BigShl(BigOfNat(n), MantBits - NatBitLen(n)),
          e |-> NatBitLen(n) - MantBits]

\* x / y, for y > 0
FloatDiv(x, y) ==
    IF x = FloatZero \/ y = FloatZero THEN FloatZero
    ELSE LET qr == BigDivMod(BigShl(x.m, MantBits + 1), y.m)
         IN  FloatRound(qr[1], qr[2] # <<>>, x.e - y.e - (MantBits + 1))

\* i * x, the integer i converted to a double first
FloatMulInt(i, x) ==
    IF i = 0 \/ x = FloatZero THEN FloatZero
    ELSE FloatRound(BigMulAdd(x.m, i, 0), FALSE, x.e)

\* <<floor(x), whether x has a fraction>>
FloatFloor(x) ==
    IF x = FloatZero THEN <<0, FALSE>>
    ELSE IF x.e >= 0 THEN <<BigToNat(BigShl(x.m, x.e)), FALSE>>
    ELSE LET sh == BigShr(x.m, 0 - x.e) IN <<BigToNat(sh[1]), sh[2]>>

\* int(x)
FloatToInt(x) == FloatFloor(x)[1]

\* ceil(x)
FloatCeil(x) == FloatFloor(x)[1] + (IF FloatFloor(x)[2] THEN 1 ELSE 0)

(***************************************************************************)
(* save_to_disk: the frame indices written.                                *)
(***************************************************************************)
\* stride of save_to_disk: the integer 1, or frame_count / float(max_frame_count)
Stride(frame_count, max_frame_count) ==
    IF max_frame_count > 0
    THEN FloatDiv(FloatOfInt(frame_count), FloatOfInt(max_frame_count))
    ELSE FloatOfInt(1)

\* np.arange(0, stop, stride) raises ZeroDivisionError on a zero stride
ArangeRaises(stop, stride) == stride = FloatZero

\* np.arange(0, stop, stride), each value through int(): the length is
\* ceil((stop - 0) / stride), value 0 is 0, value 1 is 0 + stride and value
\* i is 0 + i * stride
ArangeInts(stop, stride) ==
    LET len == FloatCeil(FloatDiv(FloatOfInt(stop), stride))
    IN  {FloatToInt(FloatMulInt(i, stride)) : i \in 0..(len - 1)}

\* relevant_frames of save_to_disk, where np.arange does not raise
relevant_frames(frame_count, max_frame_count) ==
    ArangeInts(frame_count, Stride(frame_count, max_frame_count))

\* the files one save_to_disk call writes: frame i under name, for every i
\* in relevant_frames
save_to_disk(frame_count, name, max_frame_count) ==
    {<<name, i>> : i \in {j \in 0..(frame_count - 1) :
                             j \in relevant_frames(frame_count, max_frame_count)}}

(***************************************************************************)
(* face_pass: the detector, the clusters of remember_face, the choice of   *)
(* the most significant face and the crop.                                 *)
(***************************************************************************)
\* the frames are FrameW x FrameH, in units of 15 pixels
FrameW == 4

FrameH == 2

\* detections per clip, frames per clip, frames per flow clip
MaxDetect == 3

MaxFrames == 11

\* face detection runs on every DetectEvery-th frame
DetectEvery == 10

\* minSize=(30, 30) of detectMultiScale, in units of 15 pixels
minSize == 2

\* what detectMultiScale can return: the rectangles <<x, y, w, h>> inside
\* the frame that are no smaller than minSize
Rects ==
    {r \in (0..(FrameW - 1)) \X (0..(FrameH - 1)) \X (minSize..FrameW) \X (minSize..FrameH) :
        r[1] + r[3] <= FrameW /\ r[2] + r[4] <= FrameH}

Min(a, b) == IF a < b THEN a ELSE b

Max(a, b) == IF a > b THEN a ELSE b

\* point_in_rect with the boundary of the rectangle counted in
point_in_rect_closed(point, rect) ==
    /\ point.x >= rect.minX
    /\ point.x <= rect.minX + rect.maxWidth
    /\ point.y >= rect.minY
    /\ point.y <= rect.minY + rect.maxHeight

point_in_rect(point, rect) ==
    /\ point.x > rect.minX
    /\ point.x < rect.minX + rect.maxWidth
    /\ point.y > rect.minY
    /\ point.y < rect.minY + rect.maxHeight

\* merge with the left edge moved to the greater x
merge_greater_x(head, face) ==
    [minX      |-> Max(head.minX, face[1]),
     minY      |-> Min(head.minY, face[2]),
     maxWidth  |-> Max(head.maxWidth, face[3]),
     maxHeight |-> Max(head.maxHeight, face[4]),
     count     |-> head.count + 1]

\* the cluster remember_face makes of head and a face whose centre is in it
merge(head, face) ==
    [minX      |-> Min(head.minX, face[1]),
     minY      |-> Min(head.minY, face[2]),
     maxWidth  |-> Max(head.maxWidth, face[3]),
     maxHeight |-> Max(head.maxHeight, face[4]),
     count     |-> head.count + 1]

RECURSIVE remember_face(_, _)
remember_face(face, known) ==
    LET x == face[1]
        y == face[2]
        w == face[3]
        h == face[4]
    IN  IF Len(known) = 0
        THEN <<[minX |-> x, minY |-> y, maxWidth |-> w, maxHeight |-> h,
                count |-> 0]>>
        ELSE LET center_point == [x |-> x + w \div 2, y |-> y + h \div 2]
                 head == known[1]
                 tail == Tail(known)
             IN  IF point_in_rect(center_point, head)
                 THEN <<merge(head, face)>> \o tail
                 ELSE <<head>> \o remember_face(face, tail)

\* max(known_faces, key=count), as Python's max scans: the position of the
\* first item whose key no later item exceeds
RECURSIVE PyMax(_, _, _)
PyMax(known, best, k) ==
    IF k > Len(known) THEN best
    ELSE IF known[k].count > known[best].count THEN PyMax(known, k, k + 1)
    ELSE PyMax(known, best, k + 1)

\* the position of the last cluster of greatest count
most_significant_face_last(known) ==
    SetMax({k \in 1..Len(known) :
               \A q \in 1..Len(known) : known[q].count <= known[k].count})

most_significant_face(known) == PyMax(known, 1, 2)

\* the length of the numpy slice [start : stop] of an axis of n pixels
SliceLen(start, stop, n) ==
    LET clip(j) == IF j < 0 THEN Max(j + n, 0) ELSE Min(j, n)
    IN  Max(clip(stop) - clip(start), 0)

\* the shape <<rows, columns>> of crop_and_mask's result
crop_and_mask(face) ==
    <<SliceLen(face.minY, face.minY + face.maxHeight, FrameH),
      SliceLen(face.minX, face.minX + face.maxWidth, FrameW)>>

(***************************************************************************)
(* flow_pass_continuous.  A frame is one pixel of a uint8 image; the       *)
(* Farneback solver is external: it finds no displacement between equal    *)
(* images and some displacement d otherwise.                               *)
(***************************************************************************)
SCALE_FLOW == 10

Pixels == {0, 1, 200}

Displacements == {-1, 0, 1}

MaxClip == 3

\* cv2.convertScaleAbs(v, None, alpha, beta): |v * alpha + beta| saturated
\* to uint8
convertScaleAbs(v, alpha, beta) ==
    LET a == IF v * alpha + beta < 0 THEN 0 - (v * alpha + beta) ELSE v * alpha + beta
    IN  Min(a, 255)

\* calculateFlow(frame1, frame2), with d what the solver finds between
\* two different images; the images are kept with the result
calculateFlow(frame1, frame2, d) ==
    LET flow == IF frame1 = frame2 THEN 0 ELSE d
    IN  [frame1 |-> frame1, frame2 |-> frame2,
         horz |-> convertScaleAbs(flow, 128 \div SCALE_FLOW, 128)]

\* ndarray + list of ndarrays: the list becomes an array and the frame is
\* added to each of its items, modulo 256
numpy_add(frame, frames) == [k \in 1..Len(frames) |-> (frame + frames[k]) % 256]

zip(a, b) == [k \in 1..Min(Len(a), Len(b)) |-> <<a[k], b[k]>>]

flow_pass_continuous(frames, ds) ==
    LET pairs == zip(numpy_add(frames[1], frames), frames)
    IN  [k \in 1..Len(pairs) |-> calculateFlow(pairs[k][1], pairs[k][2], ds[k])]

(***************************************************************************)
(* The state.                                                              *)
(***************************************************************************)
VARIABLES
    pc,               \* where the program is
    max_frame_count,  \* int(sys.argv[1])
    nframes,          \* len(framesGray)
    read_failed,      \* a cap.read() failed before frame_count frames were read
    i, j,             \* face_pass: the frame index, the faces of frame i remembered
    known_faces,      \* face_pass: the clusters
    folded,           \* per cluster, the number and the bounding box of the
                      \* rectangles remembered into it
    prev_faces,       \* known_faces before the last remember_face call
    last_face,        \* the rectangle of the last remember_face call
    detections,       \* the remember_face calls so far
    region_at,        \* the position in known_faces of most_significant_face
    region,           \* most_significant_face
    crop,             \* the shape of every cropped frame
    saved,            \* the save_to_disk calls main has made
    written,          \* the files written: <<name, frame index>>
    framesGray,       \* flow_pass_continuous: its argument
    flows,            \* flow_pass_continuous: what calculateFlow was called with
    exit_status,      \* the process's exit status, -1 while it runs
    message,          \* what the process printed when it ended
    cause             \* why the process ended

inVars == <<max_frame_count, nframes, read_failed>>

trackVars ==
    <<i, j, known_faces, folded, prev_faces, last_face, detections, region_at,
      region, crop>>

saveVars == <<saved, written>>

flowVars == <<framesGray, flows>>

exitVars == <<exit_status, message, cause>>

vars == <<pc, inVars, trackVars, saveVars, flowVars, exitVars>>

NoRegion == [minX |-> 0, minY |-> 0, maxWidth |-> 0, maxHeight |-> 0, count |-> 0]

\* main() is entered
Init ==
    /\ pc = "main"
    /\ max_frame_count = 0
    /\ nframes = 0
    /\ read_failed = FALSE
    /\ i = 0
    /\ j = 0
    /\ known_faces = <<>>
    /\ folded = <<>>
    /\ prev_faces = <<>>
    /\ last_face = <<>>
    /\ detections = 0
    /\ region_at = 0
    /\ region = NoRegion
    /\ crop = <<0, 0>>
    /\ saved = 0
    /\ written = {}
    /\ framesGray = <<>>
    /\ flows = <<>>
    /\ exit_status = -1
    /\ message = ""
    /\ cause = ""

\* sys.exit(msg) prints msg and exits with status 1; sys.exit() prints
\* nothing and exits with status 0; an uncaught exception prints its
\* traceback and exits with status 1
Exit(status, msg, why) ==
    /\ pc' = "exit"
    /\ exit_status' = status
    /\ message' = msg
    /\ cause' = why

(***************************************************************************)
(* main() up to face_pass.                                                 *)
(***************************************************************************)
Counts == {0, 2}

\* main(): the checks of sys.argv
Main ==
    /\ pc = "main"
    /\ \E argc \in 1..4, isfile \in BOOLEAN, isdir \in BOOLEAN, count \in Counts :
          IF argc < 4
          THEN /\ Exit(1, "Usage", "usage")
               /\ UNCHANGED max_frame_count
          ELSE IF ~isfile
          THEN /\ Exit(1, "not a valid filename", "not_file")
               /\ UNCHANGED max_frame_count
          ELSE IF ~isdir
          THEN /\ Exit(1, "not a valid directory", "not_dir")
               /\ UNCHANGED max_frame_count
          ELSE /\ pc' = "read_video"
               /\ max_frame_count' = count
               /\ UNCHANGED exitVars
    /\ UNCHANGED <<nframes, read_failed, trackVars, saveVars, flowVars>>

\* the loop of read_video: the number of frames appended when the read of
\* frame fail_at fails
RECURSIVE read_loop(_, _, _)
read_loop(k, frame_count, fail_at) ==
    IF k >= frame_count THEN k
    ELSE IF k = fail_at THEN k
    ELSE read_loop(k + 1, frame_count, fail_at)

\* read_video(video)
ReadVideo ==
    /\ pc = "read_video"
    /\ \E opened \in BOOLEAN, frame_count \in 0..MaxFrames, fail_at \in 0..MaxFrames :
          IF opened
          THEN /\ nframes' = read_loop(0, frame_count, fail_at)
               /\ read_failed' = (fail_at < frame_count)
               /\ pc' = "face_pass"
               /\ UNCHANGED exitVars
          ELSE /\ Exit(1, "Error opening video file.", "open_error")
               /\ UNCHANGED <<nframes, read_failed>>
    /\ UNCHANGED <<max_frame_count, trackVars, saveVars, flowVars>>

(***************************************************************************)
(* face_pass.                                                              *)
(***************************************************************************)
Box(face) ==
    [n |-> 1, x0 |-> face[1], y0 |-> face[2],
     x1 |-> face[1] + face[3], y1 |-> face[2] + face[4]]

Grow(b, face) ==
    [n  |-> b.n + 1,
     x0 |-> Min(b.x0, face[1]), y0 |-> Min(b.y0, face[2]),
     x1 |-> Max(b.x1, face[1] + face[3]), y1 |-> Max(b.y1, face[2] + face[4])]

\* the record of what was remembered where, after a call that made new of old
Fold(old, new, face) ==
    IF Len(new) > Len(old) THEN Append(folded, Box(face))
    ELSE [k \in 1..Len(folded) |->
             IF k <= Len(new) /\ new[k] # old[k] THEN Grow(folded[k], face)
             ELSE folded[k]]

\* detect_face(frame) finds no face: sys.exit()
DetectNone ==
    /\ pc = "face_pass"
    /\ i < nframes
    /\ j = 0
    /\ Exit(0, "", "no_face")
    /\ UNCHANGED <<inVars, trackVars, saveVars, flowVars>>

\* the next face of detect_face(frame) is remembered
RememberFace ==
    /\ pc = "face_pass"
    /\ i < nframes
    /\ detections < MaxDetect
    /\ \E face \in Rects :
          /\ known_faces' = remember_face(face, known_faces)
          /\ folded' = Fold(known_faces, known_faces', face)
          /\ last_face' = face
    /\ prev_faces' = known_faces
    /\ detections' = detections + 1
    /\ j' = j + 1
    /\ UNCHANGED <<pc, i, region_at, region, crop, inVars, saveVars, flowVars, exitVars>>

\* the faces of frame i are done: on to the next frame with i % 10 = 0
NextFrame ==
    /\ pc = "face_pass"
    /\ i < nframes
    /\ j > 0
    /\ i' = i + DetectEvery
    /\ j' = 0
    /\ UNCHANGED <<pc, known_faces, folded, prev_faces, last_face, detections,
                   region_at, region, crop, inVars, saveVars, flowVars, exitVars>>

\* the frames are done: the most significant face is chosen and every
\* frame cropped to it; max() of no face raises ValueError
FacePassEnd ==
    /\ pc = "face_pass"
    /\ i >= nframes
    /\ IF known_faces = <<>>
       THEN /\ Exit(1, "ValueError: max() arg is an empty sequence", "ValueError")
            /\ UNCHANGED <<region_at, region, crop>>
       ELSE /\ region_at' = most_significant_face(known_faces)
            /\ region' = known_faces[region_at']
            /\ crop' = crop_and_mask(region')
            /\ pc' = "flow"
            /\ UNCHANGED exitVars
    /\ UNCHANGED <<i, j, known_faces, folded, prev_faces, last_face, detections,
                   inVars, saveVars, flowVars>>

(***************************************************************************)
(* main() after face_pass.                                                 *)
(***************************************************************************)
\* flow_pass_static, twice; the locals of face_pass are gone
FlowPass ==
    /\ pc = "flow"
    /\ pc' = "save"
    /\ i' = 0
    /\ j' = 0
    /\ known_faces' = <<>>
    /\ folded' = <<>>
    /\ prev_faces' = <<>>
    /\ last_face' = <<>>
    /\ detections' = 0
    /\ region_at' = 0
    /\ UNCHANGED <<region, crop, inVars, saveVars, flowVars, exitVars>>

Streams == <<"frame-bgr", "frame-gray", "flow-x", "flow-y">>

\* one save_to_disk call
SaveCall(name) ==
    IF ArangeRaises(nframes, Stride(nframes, max_frame_count))
    THEN /\ Exit(1, "ZeroDivisionError", "ZeroDivisionError")
         /\ UNCHANGED saveVars
    ELSE /\ written' = written \cup save_to_disk(nframes, name, max_frame_count)
         /\ saved' = saved + 1
         /\ UNCHANGED <<pc, exitVars>>

\* the next of main's four save_to_disk calls
Save ==
    /\ pc = "save"
    /\ saved < Len(Streams)
    /\ SaveCall(Streams[saved + 1])
    /\ UNCHANGED <<inVars, trackVars, flowVars>>

\* main() returns
Done ==
    /\ pc = "save"
    /\ saved = Len(Streams)
    /\ Exit(0, "", "done")
    /\ UNCHANGED <<inVars, trackVars, saveVars, flowVars>>

Next ==
    \/ Main
    \/ ReadVideo
    \/ DetectNone
    \/ RememberFace
    \/ NextFrame
    \/ FacePassEnd
    \/ FlowPass
    \/ Save
    \/ Done

Spec == Init /\ [][Next]_vars

(***************************************************************************)
(* face_pass alone, on a clip of MaxFrames frames that was read whole.     *)
(***************************************************************************)
InitTrack ==
    /\ pc = "face_pass"
    /\ max_frame_count = 0
    /\ nframes = MaxFrames
    /\ read_failed = FALSE
    /\ i = 0
    /\ j = 0
    /\ known_faces = <<>>
    /\ folded = <<>>
    /\ prev_faces = <<>>
    /\ last_face = <<>>
    /\ detections = 0
    /\ region_at = 0
    /\ region = NoRegion
    /\ crop = <<0, 0>>
    /\ saved = 0
    /\ written = {}
    /\ framesGray = <<>>
    /\ flows = <<>>
    /\ exit_status = -1
    /\ message = ""
    /\ cause = ""

NextTrack ==
    \/ DetectNone
    \/ RememberFace
    \/ NextFrame
    \/ FacePassEnd

SpecTrack == InitTrack /\ [][NextTrack]_vars

(***************************************************************************)
(* save_to_disk alone, on every frame count and max_frame_count.           *)
(***************************************************************************)
MaxLen == 15

MaxCount == 13

InitSave ==
    /\ pc = "save_to_disk"
    /\ max_frame_count \in -1..MaxCount
    /\ nframes \in 0..MaxLen
    /\ read_failed = FALSE
    /\ i = 0
    /\ j = 0
    /\ known_faces = <<>>
    /\ folded = <<>>
    /\ prev_faces = <<>>
    /\ last_face = <<>>
    /\ detections = 0
    /\ region_at = 0
    /\ region = NoRegion
    /\ crop = <<0, 0>>
    /\ saved = 0
    /\ written = {}
    /\ framesGray = <<>>
    /\ flows = <<>>
    /\ exit_status = -1
    /\ message = ""
    /\ cause = ""

SaveToDisk ==
    /\ pc = "save_to_disk"
    /\ saved = 0
    /\ SaveCall("frame-gray")
    /\ UNCHANGED <<inVars, trackVars, flowVars>>

NextSave == SaveToDisk

SpecSave == InitSave /\ [][NextSave]_vars

(***************************************************************************)
(* flow_pass_continuous alone, on every clip of 1..MaxClip frames.         *)
(***************************************************************************)
Clips == UNION {[1..n -> Pixels] : n \in 1..MaxClip}

InitFlow ==
    /\ pc = "flow_pass_continuous"
    /\ max_frame_count = 0
    /\ framesGray \in Clips
    /\ nframes = Len(framesGray)
    /\ read_failed = FALSE
    /\ i = 0
    /\ j = 0
    /\ known_faces = <<>>
    /\ folded = <<>>
    /\ prev_faces = <<>>
    /\ last_face = <<>>
    /\ detections = 0
    /\ region_at = 0
    /\ region = NoRegion
    /\ crop = <<0, 0>>
    /\ saved = 0
    /\ written = {}
    /\ flows = <<>>
    /\ exit_status = -1
    /\ message = ""
    /\ cause = ""

FlowPassContinuous ==
    /\ pc = "flow_pass_continuous"
    /\ \E ds \in [1..Len(framesGray) -> Displacements] :
          flows' = flow_pass_continuous(framesGray, ds)
    /\ pc' = "flowed"
    /\ UNCHANGED <<framesGray, inVars, trackVars, saveVars, exitVars>>

NextFlow == FlowPassContinuous

SpecFlow == InitFlow /\ [][NextFlow]_vars

(***************************************************************************)
(* The properties.                                                         *)
(***************************************************************************)
NoFaceDetected == pc = "exit" /\ cause = "no_face"

\* C1: face_pass ends with NoFaceDetected only if the detector returned no
\* candidate on every visited frame; a clip with a candidate on some
\* visited frame is never NoFaceDetected.
C1_NoFaceOnlyWithoutCandidate == NoFaceDetected => detections = 0

\* C2: every cluster's count is the number of rectangles remembered into
\* it, the one that created it included.
C2_CountIsFolded ==
    \A k \in 1..Len(known_faces) : known_faces[k].count = folded[k].n

\* the envelope of cluster c covers the box b
Covers(c, b) ==
    /\ c.minX <= b.x0
    /\ c.minY <= b.y0
    /\ c.minX + c.maxWidth >= b.x1
    /\ c.minY + c.maxHeight >= b.y1

\* C4: every cluster's envelope contains every rectangle remembered into
\* the cluster.
C4_EnvelopeCoversFolded ==
    \A k \in 1..Len(known_faces) : Covers(known_faces[k], folded[k])

Cluster(n) == [minX |-> 0, minY |-> 0, maxWidth |-> 2, maxHeight |-> 2, count |-> n]

\* C3: the region face_pass chooses has the greatest count of the final
\* cluster list and is the first cluster of that count; of the counts
\* 3, 5, 5 the second cluster is chosen.
C3_FirstOfGreatestCount ==
    /\ most_significant_face(<<Cluster(3), Cluster(5), Cluster(5)>>) = 2
    /\ pc = "flow" =>
          /\ region_at \in 1..Len(known_faces)
          /\ region = known_faces[region_at]
          /\ \A k \in 1..Len(known_faces) : known_faces[k].count <= region.count
          /\ \A k \in 1..(region_at - 1) : known_faces[k].count < region.count

\* a region was chosen among clusters of which a later one has its count
C3_Tie ==
    /\ pc = "flow"
    /\ \E k \in (region_at + 1)..Len(known_faces) :
          known_faces[k].count = region.count

\* the clusters of prev_faces whose envelope has the centre of last_face
\* strictly inside
Matching ==
    LET cx == last_face[1] + last_face[3] \div 2
        cy == last_face[2] + last_face[4] \div 2
    IN  {k \in 1..Len(prev_faces) :
            /\ prev_faces[k].minX < cx
            /\ cx < prev_faces[k].minX + prev_faces[k].maxWidth
            /\ prev_faces[k].minY < cy
            /\ cy < prev_faces[k].minY + prev_faces[k].maxHeight}

\* C9: remember_face changes exactly the first cluster whose envelope has
\* the rectangle's centre strictly inside and leaves the others, their
\* order and their number as they were; when no cluster has, it appends one
\* cluster and changes none.
C9_FirstFitStrict ==
    last_face # <<>> =>
        IF Matching = {}
        THEN /\ Len(known_faces) = Len(prev_faces) + 1
             /\ \A k \in 1..Len(prev_faces) : known_faces[k] = prev_faces[k]
        ELSE /\ Len(known_faces) = Len(prev_faces)
             /\ known_faces[SetMin(Matching)] # prev_faces[SetMin(Matching)]
             /\ \A k \in 1..Len(prev_faces) :
                   k # SetMin(Matching) => known_faces[k] = prev_faces[k]

\* a rectangle was remembered whose centre two clusters had strictly inside
C9_TwoMatch == last_face # <<>> /\ Cardinality(Matching) >= 2

\* C10: every cluster lies inside the frame, and the crop of a frame to the
\* chosen region is maxHeight rows of maxWidth pixels.
C10_InsideFrame ==
    /\ \A k \in 1..Len(known_faces) :
          /\ known_faces[k].minX >= 0
          /\ known_faces[k].minY >= 0
          /\ known_faces[k].minX + known_faces[k].maxWidth <= FrameW
          /\ known_faces[k].minY + known_faces[k].maxHeight <= FrameH
    /\ pc = "flow" => crop = <<region.maxHeight, region.maxWidth>>

\* the frames were cropped to a merged cluster that starts inside the
\* frame and ends at the frame's right edge
C10_MergedAtEdge ==
    /\ pc = "flow"
    /\ region.count >= 1
    /\ region.minX > 0
    /\ region.minX + region.maxWidth = FrameW

\* the indices save_to_disk wrote
WrittenIndices == {f[2] : f \in written}

\* the indices a sample of max_frame_count of nframes frames is to have
Sample ==
    IF max_frame_count <= 0 THEN 0..(nframes - 1)
    ELSE {(k * nframes) \div max_frame_count : k \in 0..(max_frame_count - 1)}

\* C5: save_to_disk writes every frame when max_frame_count <= 0 and
\* otherwise exactly the frames floor(k * n / max_frame_count) for
\* k < max_frame_count, which are no more than max_frame_count.
C5_WritesSample ==
    saved = 1 =>
        /\ WrittenIndices = Sample
        /\ max_frame_count > 0 => Cardinality(WrittenIndices) <= max_frame_count

\* C6: flow_pass_continuous returns one flow per frame; flow k is that of
\* frame k - 1 and frame k, the first that of frame 0 and itself; equal
\* frames give the flow 128 everywhere.
C6_FlowOfPredecessor ==
    pc = "flowed" =>
        /\ Len(flows) = Len(framesGray)
        /\ \A k \in 1..Len(flows) :
              /\ flows[k].frame1 = framesGray[IF k = 1 THEN 1 ELSE k - 1]
              /\ flows[k].frame2 = framesGray[k]
        /\ (\A k \in 1..Len(framesGray) : framesGray[k] = framesGray[1]) =>
              \A k \in 1..Len(flows) : flows[k].horz = 128

\* C7: the program ends with a status other than 0 and a message, having
\* written no file, when arguments are missing, the video is no file, the
\* output is no directory, or no face is detected.
C7_ErrorExit ==
    pc = "exit" /\ cause \in {"usage", "not_file", "not_dir", "no_face"} =>
        /\ exit_status # 0
        /\ message # ""
        /\ written = {}

\* C8: after a read of a frame failed before frame_count frames were read,
\* the program goes on to no face detection, flow or writing.
C8_ReadFailureAborts ==
    read_failed => pc \notin {"face_pass", "flow", "save"}

====
